---- MODULE Spec2Model ----
(***************************************************************************)
(* The feature-derivation pipeline of covid/data_utils.py: process_data    *)
(* runs extend_data, fill_missing_values, add_world_population_data and    *)
(* create_features over one table (a pandas DataFrame).  A table is a      *)
(* sequence of rows, a row is a record of its cells, a numeric cell is an  *)
(* exact rational <<numerator, denominator>>, and the missing value NaN is *)
(* the pair <<0, 0>>.                                                      *)
(***************************************************************************)
EXTENDS Integers, Sequences, FiniteSets, TLC

VARIABLES old_df, df, stage

vars == <<old_df, df, stage>>

(***************************************************************************)
(* Numeric cells.                                                          *)
(***************************************************************************)
NaN == <<0, 0>>

IsNaN(x) == x[2] = 0

Abs(n) == IF n < 0 THEN -n ELSE n

RECURSIVE GCD(_, _)
GCD(a, b) == IF b = 0 THEN a ELSE GCD(b, a % b)

Rat(n, d) ==
  IF d = 0 THEN NaN
  ELSE LET g == GCD(Abs(n), Abs(d))
           s == IF d < 0 THEN -1 ELSE 1
       IN <<(s * n) \div g, (s * d) \div g>>

Num(n) == <<n, 1>>

LCM(a, b) == (a \div GCD(a, b)) * b

RAdd(x, y) ==
  IF IsNaN(x) \/ IsNaN(y) THEN NaN
  ELSE LET l == LCM(x[2], y[2])
       IN Rat(x[1] * (l \div x[2]) + y[1] * (l \div y[2]), l)

RNeg(x) == IF IsNaN(x) THEN NaN ELSE <<-x[1], x[2]>>

RSub(x, y) == RAdd(x, RNeg(y))

RMul(x, y) ==
  IF IsNaN(x) \/ IsNaN(y) THEN NaN
  ELSE LET a == Rat(x[1], y[2])
           b == Rat(y[1], x[2])
       IN Rat(a[1] * b[1], a[2] * b[2])

\* x / y; a division by zero is never reached (every divisor is a non-zero
\* literal of the source) and yields NaN as 0/0 does.
RDiv(x, y) ==
  IF IsNaN(x) \/ IsNaN(y) \/ y[1] = 0 THEN NaN
  ELSE RMul(x, Rat(y[2], y[1]))

\* Comparisons with NaN are false, as in IEEE arithmetic.
RLe(x, y) ==
  /\ ~IsNaN(x)
  /\ ~IsNaN(y)
  /\ LET l == LCM(x[2], y[2])
     IN x[1] * (l \div x[2]) <= y[1] * (l \div y[2])

RLt(x, y) == RLe(x, y) /\ x # y

IsZero(x) == x = Num(0)

(***************************************************************************)
(* class COL: a column name is kept as the parts the code takes it apart   *)
(* into: 'C1_School_closing' is prefix "C", number 1 and the rest.         *)
(***************************************************************************)
c1 == [prefix |-> "C", num |-> 1, rest |-> "School_closing"]
c2 == [prefix |-> "C", num |-> 2, rest |-> "Workplace_closing"]
c3 == [prefix |-> "C", num |-> 3, rest |-> "Cancel_public_events"]
c4 == [prefix |-> "C", num |-> 4, rest |-> "Restrictions_on_gatherings"]
c5 == [prefix |-> "C", num |-> 5, rest |-> "Close_public_transport"]
c6 == [prefix |-> "C", num |-> 6, rest |-> "Stay_at_home_requirements"]
c7 == [prefix |-> "C", num |-> 7, rest |-> "Restrictions_on_internal_movement"]
c8 == [prefix |-> "C", num |-> 8, rest |-> "International_travel_controls"]
h1 == [prefix |-> "H", num |-> 1, rest |-> "Public_information_campaigns"]

ci_cols == <<h1, c1, c2, c3, c4, c5, c6, c7, c8>>

si_cols == <<"S1", "S2", "S3", "S4", "S5", "S6", "S7", "S8", "S9">>

\* the count columns without ConfirmedCases
count_cols_without_cases == <<"ConfirmedDeaths", "Recovered", "StringencyIndex">>

\* the columns fill_missing_values fills after the S-columns, in its order
count_cols == <<"ConfirmedCases", "ConfirmedDeaths", "Recovered", "StringencyIndex">>

\* class FEATURE
FEATURE ==
  [stringency |-> "st", stringency_sum |-> "St",
   mobility |-> "mt", mobility_sum |-> "Mt",
   public_information |-> "S1",
   school_closing |-> "S2",
   workplace_closing |-> "S3",
   cancel_public_events |-> "S4",
   restrictions_on_gatherings |-> "S5",
   close_public_transport |-> "S6",
   stay_at_home_requirements |-> "S7",
   restrictions_on_internal_movement |-> "S8",
   international_travel_controls |-> "S9"]

(***************************************************************************)
(* Tables.                                                                 *)
(***************************************************************************)
Range(s) == {s[k] : k \in DOMAIN s}

\* df[name] = v on one row, adding the column when the row lacks it
SetCol(row, name, v) ==
  IF name \in DOMAIN row THEN [row EXCEPT ![name] = v] ELSE row @@ (name :> v)

\* df[name] = v[k] on every row k
SetColumn(t, name, v) == [k \in DOMAIN t |-> SetCol(t[k], name, v[k])]

\* the row positions selected by df.Country_Code == c, in table order
RECURSIVE CountryIdx(_, _, _)
CountryIdx(t, c, k) ==
  IF k > Len(t) THEN <<>>
  ELSE IF t[k].Country_Code = c THEN <<k>> \o CountryIdx(t, c, k + 1)
  ELSE CountryIdx(t, c, k + 1)

\* the mask dropped: every row position, whatever the country
AllRows(t, c) == [k \in DOMAIN t |-> k]

\* the row positions of the mask df.Country_Code == c
CountryRows(t, c) == CountryIdx(t, c, 1)

\* df.loc[mask][col]
Column(t, ks, col) == [j \in DOMAIN ks |-> t[ks[j]][col]]

\* df.loc[mask, col] = vals
Assign(t, ks, col, vals) ==
  [k \in DOMAIN t |->
     IF \E j \in DOMAIN ks : ks[j] = k
     THEN SetCol(t[k], col, vals[CHOOSE j \in DOMAIN ks : ks[j] = k])
     ELSE t[k]]

\* df['Country_Code'].unique(): the codes in order of first appearance
RECURSIVE Unique(_, _)
Unique(t, k) ==
  IF k > Len(t) THEN <<>>
  ELSE IF \E j \in 1..(k - 1) : t[j].Country_Code = t[k].Country_Code
  THEN Unique(t, k + 1)
  ELSE <<t[k].Country_Code>> \o Unique(t, k + 1)

(***************************************************************************)
(* transform_to_mobility                                                   *)
(***************************************************************************)
\* s_id = column.split('_')[0]
SId(column) == [prefix |-> column.prefix, num |-> column.num]

\* idx = 9 for 'H1', int(s_id[1:]) otherwise
Idx(column) ==
  IF SId(column) = [prefix |-> "H", num |-> 1] THEN 9 ELSE SId(column).num

\* m_id = 'S' + str(idx)
MId(column) == "S" \o ToString(Idx(column))

\* general scope weight w = 0.28375
w == Rat(28375, 100000)

\* normalization factor nf = 1
nf == Num(1)

\* Li with indicator 6 in the group of the indicators whose highest code is 2
LiWrongGroup(idx, si, si_g) ==
  IF idx \in {3, 5, 6, 7, 9}
  THEN RMul(nf, RAdd(RMul(RDiv(si, Num(2)), RSub(Num(1), w)), RMul(w, si_g)))
  ELSE IF idx \in {1, 2}
  THEN RMul(nf, RAdd(RMul(RDiv(si, Num(3)), RSub(Num(1), w)), RMul(w, si_g)))
  ELSE IF idx \in {4}
  THEN RMul(nf, RAdd(RMul(RDiv(si, Num(4)), RSub(Num(1), w)), RMul(w, si_g)))
  ELSE IF idx \in {8}
  THEN RDiv(RMul(nf, si), Num(4))
  ELSE Num(0)

\* Li with the intensity term not scaled by (1 - w)
LiUnscaled(idx, si, si_g) ==
  IF idx \in {3, 5, 7, 9}
  THEN RMul(nf, RAdd(RDiv(si, Num(2)), RMul(w, si_g)))
  ELSE IF idx \in {1, 2, 6}
  THEN RMul(nf, RAdd(RDiv(si, Num(3)), RMul(w, si_g)))
  ELSE IF idx \in {4}
  THEN RMul(nf, RAdd(RDiv(si, Num(4)), RMul(w, si_g)))
  ELSE IF idx \in {8}
  THEN RDiv(RMul(nf, si), Num(4))
  ELSE Num(0)

\* l_i, by the group idx is in
Li(idx, si, si_g) ==
  IF idx \in {3, 5, 7, 9}
  THEN RMul(nf, RAdd(RMul(RDiv(si, Num(2)), RSub(Num(1), w)), RMul(w, si_g)))
  ELSE IF idx \in {1, 2, 6}
  THEN RMul(nf, RAdd(RMul(RDiv(si, Num(3)), RSub(Num(1), w)), RMul(w, si_g)))
  ELSE IF idx \in {4}
  THEN RMul(nf, RAdd(RMul(RDiv(si, Num(4)), RSub(Num(1), w)), RMul(w, si_g)))
  ELSE IF idx \in {8}
  THEN RDiv(RMul(nf, si), Num(4))
  ELSE Num(0)

\* si_g: the column's scope flag, or old_df[column] * 0.0 + 1 without one
SiG(row, column, has_flag) ==
  IF has_flag THEN row.flag[SId(column)]
  ELSE RAdd(RMul(row.ind[column], Num(0)), Num(1))

\* df[m_id] = l_i, computed from old_df row by row (the two tables share
\* their index)
transform_to_mobility(t, old, column, has_flag) ==
  SetColumn(t, MId(column),
            [k \in DOMAIN t |->
               Li(Idx(column), old[k].ind[column], SiG(old[k], column, has_flag))])

(***************************************************************************)
(* extend_data                                                             *)
(***************************************************************************)
\* the loop over COL.ci_cols: i counts from 0 and only i == 8 (C8) is
\* transformed without its flag
RECURSIVE TransformAll(_, _, _)
TransformAll(t, old, i) ==
  IF i >= Len(ci_cols) THEN t
  ELSE TransformAll(transform_to_mobility(t, old, ci_cols[i + 1], i # 8), old, i + 1)

\* the missing value kept
FillNaKeep(x) == x

\* Series.fillna(0) on one cell
FillNa(x) == IF IsNaN(x) THEN Num(0) ELSE x

\* df[col].fillna(0, inplace=True) for every column of df; the key columns
\* Country_Code and DateTime hold no missing value
FillNaRow(r) ==
  [name \in DOMAIN r |->
     IF name \in {"Country_Code", "DateTime"} THEN r[name]
     ELSE IF name \in {"ind", "flag"} THEN [c \in DOMAIN r[name] |-> FillNa(r[name][c])]
     ELSE FillNa(r[name])]

\* The country codes of the model, in Python's string order.
Countries == <<"ABW", "BRA">>

CodeRank(c) == CHOOSE k \in DOMAIN Countries : Countries[k] = c

\* the sort key ['Country_Code', 'DateTime']
KeyLe(a, b) ==
  \/ CodeRank(a.Country_Code) < CodeRank(b.Country_Code)
  \/ /\ a.Country_Code = b.Country_Code
     /\ a.DateTime <= b.DateTime

RECURSIVE Insert(_, _)
Insert(sorted, r) ==
  IF sorted = <<>> THEN <<r>>
  ELSE IF KeyLe(Head(sorted), r) THEN <<Head(sorted)>> \o Insert(Tail(sorted), r)
  ELSE <<r>> \o sorted

\* df.sort_values(by=['Country_Code', 'DateTime'], ignore_index=True): a
\* stable sort, the rows renumbered
RECURSIVE sort_values(_)
sort_values(t) ==
  IF t = <<>> THEN <<>>
  ELSE Insert(sort_values(SubSeq(t, 1, Len(t) - 1)), t[Len(t)])

seed_cols == <<"mt", "Mt", "pt", "Pt", "st", "St">>

RECURSIVE SeedRow(_, _)
SeedRow(r, i) ==
  IF i > Len(seed_cols) THEN r
  ELSE SeedRow(SetCol(r, seed_cols[i], Num(0)), i + 1)

extend_data(t, old) ==
  LET transformed == TransformAll(t, old, 0)
      filled == [k \in DOMAIN transformed |-> FillNaRow(transformed[k])]
      sorted == sort_values(filled)
  IN [k \in DOMAIN sorted |-> SeedRow(sorted[k], 1)]

(***************************************************************************)
(* fill_missing_values                                                     *)
(***************************************************************************)
\* the fill with limit=1: only the first zero after a value is filled
ReplaceFFillLimit1(s) ==
  [k \in DOMAIN s |-> IF k > 1 /\ IsZero(s[k]) THEN s[k - 1] ELSE s[k]]

\* method='bfill': a zero takes the next value that is not zero
ReplaceBackFill(s) ==
  LET pad[k \in DOMAIN s] == IF k < Len(s) /\ IsZero(s[k]) THEN pad[k + 1] ELSE s[k]
  IN [k \in DOMAIN s |-> pad[k]]

\* Series.replace(to_replace=0, method='ffill'): the zeros are masked and
\* padded with the last unmasked value; a masked first value keeps itself
ReplaceFFill(s) ==
  LET pad[k \in DOMAIN s] == IF k > 1 /\ IsZero(s[k]) THEN pad[k - 1] ELSE s[k]
  IN [k \in DOMAIN s |-> pad[k]]

\* sum with skipna
RECURSIVE SumSkipNa(_)
SumSkipNa(s) ==
  IF s = <<>> THEN Num(0)
  ELSE IF IsNaN(Head(s)) THEN SumSkipNa(Tail(s))
  ELSE RAdd(Head(s), SumSkipNa(Tail(s)))

\* the values themselves, nothing accumulated
CumSumNone(s) == s

\* Series.cumsum()
CumSum(s) ==
  [k \in DOMAIN s |-> IF IsNaN(s[k]) THEN NaN ELSE SumSkipNa(SubSeq(s, 1, k))]

\* df[COL.si_cols].sum(axis=1) on one row
RowSum(r) == SumSkipNa([i \in DOMAIN si_cols |-> r[si_cols[i]]])

\* the forward fill of the columns cols[i..] over the rows ks of one country
RECURSIVE FillColumns(_, _, _, _)
FillColumns(t, ks, cols, i) ==
  IF i > Len(cols) THEN t
  ELSE FillColumns(Assign(t, ks, cols[i], ReplaceFFill(Column(t, ks, cols[i]))),
                   ks, cols, i + 1)

\* pt, Pt, mt, Mt, st, St over the rows ks of one country
Mobility(t, ks) ==
  LET t1 == Assign(t, ks, "pt", [j \in DOMAIN ks |-> RDiv(RowSum(t[ks[j]]), Num(9))])
      t2 == Assign(t1, ks, "Pt", CumSum(Column(t1, ks, "pt")))
      t3 == Assign(t2, ks, "mt", [j \in DOMAIN ks |-> RSub(Num(1), t2[ks[j]].pt)])
      t4 == Assign(t3, ks, "Mt", CumSum(Column(t3, ks, "mt")))
      t5 == Assign(t4, ks, "st",
                   [j \in DOMAIN ks |-> RDiv(t4[ks[j]].StringencyIndex, Num(100))])
  IN Assign(t5, ks, "St", CumSum(Column(t5, ks, "st")))

\* one pass of the loop over the country codes
FillCountry(t, c_code) ==
  LET ks == CountryRows(t, c_code)
      t1 == FillColumns(t, ks, si_cols, 1)
      t2 == FillColumns(t1, ks, count_cols, 1)
  IN Mobility(t2, ks)

RECURSIVE FillCountries(_, _, _)
FillCountries(t, codes, i) ==
  IF i > Len(codes) THEN t
  ELSE FillCountries(FillCountry(t, codes[i]), codes, i + 1)

fill_missing_values(t) == FillCountries(t, Unique(t, 1), 1)

(***************************************************************************)
(* add_world_population_data: the left merge with the population table of  *)
(* WorldPopulationData (module world_data), which adds the column          *)
(* Population.  The table knows the first country and lacks the second,    *)
(* whose rows get the missing value.                                       *)
(***************************************************************************)
WorldPopulationData == [Code \in {Countries[1]} |-> Num(100)]

add_world_population_data(t, wp) ==
  [k \in DOMAIN t |->
     SetCol(t[k], "Population",
            IF t[k].Country_Code \in DOMAIN wp THEN wp[t[k].Country_Code] ELSE NaN)]

(***************************************************************************)
(* create_features                                                         *)
(***************************************************************************)
\* the difference to 0 on the first row
DiffFromZero(s) == [k \in DOMAIN s |-> IF k = 1 THEN s[k] ELSE RSub(s[k], s[k - 1])]

\* Series.diff(): the first value has nothing to be compared with
Diff(s) == [k \in DOMAIN s |-> IF k = 1 THEN NaN ELSE RSub(s[k], s[k - 1])]

\* the row positions selected by (df.Country_Code == c) & (df.ConfirmedCases > 0)
RECURSIVE CasesIdx(_, _, _)
CasesIdx(t, c, k) ==
  IF k > Len(t) THEN <<>>
  ELSE IF t[k].Country_Code = c /\ RLt(Num(0), t[k].ConfirmedCases)
  THEN <<k>> \o CasesIdx(t, c, k + 1)
  ELSE CasesIdx(t, c, k + 1)

\* dates.min()
RECURSIVE MinOf(_)
MinOf(s) ==
  IF Len(s) = 1 THEN s[1]
  ELSE LET m == MinOf(Tail(s)) IN IF s[1] <= m THEN s[1] ELSE m

\* days_count = dates - dates.min(), in whole days
DaysCount(dates) ==
  IF dates = <<>> THEN <<>>
  ELSE [j \in DOMAIN dates |-> dates[j] - MinOf(dates)]

daily_cols ==
  << <<"DailyConfirmedCases", "ConfirmedCases">>,
     <<"DailyConfirmedDeaths", "ConfirmedDeaths">>,
     <<"DailyRecovered", "Recovered">>,
     <<"DailyActive", "Active">> >>

RECURSIVE DailyColumns(_, _, _)
DailyColumns(t, ks, i) ==
  IF i > Len(daily_cols) THEN t
  ELSE DailyColumns(Assign(t, ks, daily_cols[i][1], Diff(Column(t, ks, daily_cols[i][2]))),
                    ks, i + 1)

\* one pass of the loop over the country codes
FeaturesCountry(t, c) ==
  LET ps == CasesIdx(t, c, 1)
      t1 == Assign(t, ps, "DaysCountFromFirstCase", DaysCount(Column(t, ps, "DateTime")))
  IN DailyColumns(t1, CountryRows(t1, c), 1)

RECURSIVE FeaturesCountries(_, _, _)
FeaturesCountries(t, codes, i) ==
  IF i > Len(codes) THEN t
  ELSE FeaturesCountries(FeaturesCountry(t, codes[i]), codes, i + 1)

\* Active, the relative columns and the seeds of the daily columns
SeedFeatures(r) ==
  LET active == RSub(RSub(r.ConfirmedCases, r.ConfirmedDeaths), r.Recovered)
  IN r @@ [Active |-> active,
           RelativeConfirmedCases |-> RDiv(r.ConfirmedCases, r.Population),
           RelativeConfirmedDeaths |-> RDiv(r.ConfirmedDeaths, r.Population),
           RelativeRecovered |-> RDiv(r.Recovered, r.Population),
           RelativeActive |-> RDiv(active, r.Population),
           DailyConfirmedCases |-> Num(0),
           DailyConfirmedDeaths |-> Num(0),
           DailyRecovered |-> Num(0),
           DailyActive |-> Num(0),
           DaysCountFromFirstCase |-> 0]

\* the four fillna(0) that end create_features
FillNaDaily(r) ==
  [r EXCEPT !.DailyConfirmedCases = FillNa(@),
            !.DailyConfirmedDeaths = FillNa(@),
            !.DailyRecovered = FillNa(@),
            !.DailyActive = FillNa(@)]

create_features(t) ==
  LET seeded == [k \in DOMAIN t |-> SeedFeatures(t[k])]
      looped == FeaturesCountries(seeded, Unique(seeded, 1), 1)
  IN [k \in DOMAIN looped |-> FillNaDaily(looped[k])]

\* process_data
process_data(t, old, wp) ==
  create_features(add_world_population_data(fill_missing_values(extend_data(t, old)), wp))

(***************************************************************************)
(* The input tables.                                                       *)
(***************************************************************************)
\* rows of the first country's series; the second country starts a day later
NumRows == 3

\* the day of the k-th date of a series: 1, 3, 6, 10, ..., so that no two
\* gaps between reporting days are the same
Day(k) == (k * (k + 1)) \div 2

\* the highest ordinal code of an indicator (Oxford's codebook; the divisor
\* of its group, and 4 for C8)
MaxOrdinal(column) ==
  IF Idx(column) \in {3, 5, 7, 9} THEN 2
  ELSE IF Idx(column) \in {1, 2, 6} THEN 3
  ELSE 4

Ordinals(m) == {Num(n) : n \in 0..m}

Flags == {Num(0), Num(1)}

\* a row whose indicators with highest code 2, 3 and 4 hold r2, r3 and r4,
\* whose flags all hold f, and whose counts are cnt
Row(code, date, r2, r3, r4, f, cnt) ==
  [Country_Code |-> code,
   DateTime |-> date,
   ind |-> [c \in Range(ci_cols) |->
              IF MaxOrdinal(c) = 2 THEN r2 ELSE IF MaxOrdinal(c) = 3 THEN r3 ELSE r4],
   flag |-> [s \in {SId(c) : c \in Range(ci_cols)} |-> f],
   ConfirmedCases |-> cnt[1],
   ConfirmedDeaths |-> cnt[2],
   Recovered |-> cnt[3],
   StringencyIndex |-> cnt[4]]

\* the kinds of row a series is made of: the policy codes r2, r3, r4, the
\* flag, and the counts ConfirmedCases, ConfirmedDeaths, Recovered,
\* StringencyIndex
NoMeasure ==
  [pol |-> <<Num(0), Num(0), Num(0), Num(0)>>,
   cnt |-> <<Num(0), Num(0), Num(0), Num(0)>>]

Targeted ==
  [pol |-> <<Num(1), Num(1), Num(1), Num(0)>>,
   cnt |-> <<Num(2), Num(1), Num(0), Num(50)>>]

Lockdown ==
  [pol |-> <<Num(2), Num(3), Num(4), Num(1)>>,
   cnt |-> <<Num(3), Num(1), Num(1), Num(100)>>]

Missing ==
  [pol |-> <<NaN, NaN, NaN, NaN>>,
   cnt |-> <<NaN, NaN, NaN, NaN>>]

GeneralNoMeasure ==
  [pol |-> <<Num(0), Num(0), Num(0), Num(1)>>,
   cnt |-> <<Num(1), Num(1), Num(1), Num(25)>>]

KindRow(code, date, kind) ==
  Row(code, date, kind.pol[1], kind.pol[2], kind.pol[3], kind.pol[4], kind.cnt)

\* the kinds the rows of the first country are drawn from (one of the two
\* sets per table) and the kinds of the second country's rows
KindsA == {{NoMeasure, Targeted, Lockdown}, {Missing, GeneralNoMeasure, Targeted}}

KindsB == {NoMeasure, Lockdown}

Reverse(s) == [k \in DOMAIN s |-> s[Len(s) + 1 - k]]

\* a table of one observation, every code of every indicator occurring
InitObservation ==
  \E r2 \in Ordinals(2) \cup {NaN}, r3 \in Ordinals(3) \cup {NaN},
     r4 \in Ordinals(4) \cup {NaN}, f \in Flags \cup {NaN} :
    old_df = <<Row(Countries[1], 1, r2, r3, r4, f, <<Num(1), Num(0), Num(0), Num(50)>>)>>

\* a table of two countries' series, in sorted or in reversed row order
InitSeries ==
  \E K \in KindsA :
  \E ka \in [1..NumRows -> K],
     kb \in [1..(NumRows - 1) -> KindsB],
     rev \in BOOLEAN :
    LET rowsA == [k \in 1..NumRows |-> KindRow(Countries[1], Day(k), ka[k])]
        rowsB == [k \in 1..(NumRows - 1) |-> KindRow(Countries[2], Day(k + 1), kb[k])]
    IN old_df = IF rev THEN Reverse(rowsA \o rowsB) ELSE rowsA \o rowsB

\* one country's series with ConfirmedCases 0, 0, 5, 5, 12 on consecutive days
ExampleCases == <<0, 0, 5, 5, 12>>

ExampleTable ==
  [k \in DOMAIN ExampleCases |->
     KindRow(Countries[1], k, [NoMeasure EXCEPT !.cnt[1] = Num(ExampleCases[k])])]

InitExample == old_df = ExampleTable

Init ==
  /\ InitObservation \/ InitSeries \/ InitExample
  /\ df = old_df
  /\ stage = "raw"

(***************************************************************************)
(* The steps of process_data, and a second run of fill_missing_values on   *)
(* the table it returned.                                                  *)
(***************************************************************************)
ExtendData ==
  /\ stage = "raw"
  /\ df' = extend_data(df, old_df)
  /\ stage' = "extended"
  /\ UNCHANGED old_df

FillMissingValues ==
  /\ stage = "extended"
  /\ df' = fill_missing_values(df)
  /\ stage' = "filled"
  /\ UNCHANGED old_df

FillMissingValuesAgain ==
  /\ stage = "filled"
  /\ df' = fill_missing_values(df)
  /\ stage' = "refilled"
  /\ UNCHANGED old_df

AddWorldPopulationData ==
  /\ stage = "filled"
  /\ df' = add_world_population_data(df, WorldPopulationData)
  /\ stage' = "merged"
  /\ UNCHANGED old_df

CreateFeatures ==
  /\ stage = "merged"
  /\ df' = create_features(df)
  /\ stage' = "done"
  /\ UNCHANGED old_df

Next ==
  \/ ExtendData
  \/ FillMissingValues
  \/ FillMissingValuesAgain
  \/ AddWorldPopulationData
  \/ CreateFeatures

Spec == Init /\ [][Next]_vars

(***************************************************************************)
(* Vocabulary of the properties.                                           *)
(***************************************************************************)
Key(r) == <<r.Country_Code, r.DateTime>>

\* the input row a row of df was made from
OldRow(r) == CHOOSE o \in Range(old_df) : Key(o) = Key(r)

\* the rows of the same country dated before row k
Earlier(t, k) ==
  {p \in DOMAIN t : t[p].Country_Code = t[k].Country_Code /\ t[p].DateTime < t[k].DateTime}

\* the latest of them
Prev(t, k) == CHOOSE p \in Earlier(t, k) : \A q \in Earlier(t, k) : t[q].DateTime <= t[p].DateTime

\* the rows of one country, in table order
RowsOf(t, c) == LET ks == CountryIdx(t, c, 1) IN [j \in DOMAIN ks |-> t[ks[j]]]

\* the indicator index of a raw column: 1..8 for C1..C8 and 9 for H1
IndicatorIndex(c) == IF c = h1 THEN 9 ELSE c.num

SColumn(i) == "S" \o ToString(i)

InUnit(x) == RLe(Num(0), x) /\ RLe(x, Num(1))

\* every raw code of the input is a code of its indicator, every flag 0 or 1
\* and every StringencyIndex within 0..100
InRange(t) ==
  \A k \in DOMAIN t :
    /\ \A c \in Range(ci_cols) :
         /\ t[k].ind[c] \in Ordinals(MaxOrdinal(c))
         /\ t[k].flag[SId(c)] \in Flags
    /\ RLe(Num(0), t[k].StringencyIndex)
    /\ RLe(t[k].StringencyIndex, Num(100))

(***************************************************************************)
(* C1.  transform_to_mobility writes raw/d*(1-w) + w*flag into S{i}, with   *)
(* w = 0.28375 and d = 2 for the indices 3, 5, 7, 9, d = 3 for 1, 2, 6 and  *)
(* d = 4 for 4, and raw/4 into S8 whatever the flag is.  The value is       *)
(* stated here in whole numbers: with 0.71625 = 1 - w, it is                *)
(* (raw * 71625 * (12/d) + 12 * 28375 * flag) / 1200000.                    *)
(***************************************************************************)
ClaimedDivisor(i) == IF i \in {3, 5, 7, 9} THEN 2 ELSE IF i \in {1, 2, 6} THEN 3 ELSE 4

ClaimedIndex(i, raw, flag) ==
  IF i = 8 THEN Rat(raw, 4)
  ELSE Rat(raw * 71625 * (12 \div ClaimedDivisor(i)) + 12 * 28375 * flag, 1200000)

\* C1: after extend_data, every S{i} of a row whose raw code and flag are
\* present is the claimed value; S8 is raw/4 for every flag value, a missing
\* one included; index 1, raw 2, flag 1 gives 0.76125 and index 8, raw 3
\* gives 0.75.
TransformExact ==
  stage = "extended" =>
    \A k \in DOMAIN df : \A c \in Range(ci_cols) :
      LET o == OldRow(df[k])
          i == IndicatorIndex(c)
          raw == o.ind[c]
          flag == o.flag[SId(c)]
      IN /\ (raw \in Ordinals(4) /\ flag \in Flags /\ i # 8) =>
              df[k][SColumn(i)] = ClaimedIndex(i, raw[1], flag[1])
         /\ (raw \in Ordinals(4) /\ i = 8) => df[k][SColumn(i)] = Rat(raw[1], 4)
         /\ (raw = Num(2) /\ flag = Num(1) /\ i = 1) =>
              df[k][SColumn(i)] = Rat(76125, 100000)
         /\ (raw = Num(3) /\ i = 8) => df[k][SColumn(i)] = Rat(75, 100)

\* the two examples of C1 in one transformed row
TransformExactWitness ==
  /\ stage = "extended"
  /\ \E k \in DOMAIN df :
       /\ OldRow(df[k]).ind[c1] = Num(2)
       /\ OldRow(df[k]).flag[SId(c1)] = Num(1)
       /\ OldRow(df[k]).ind[c8] = Num(3)
       /\ df[k].S1 = Rat(76125, 100000)
       /\ df[k].S8 = Rat(3, 4)

(***************************************************************************)
(* C2.  Range bounds after extend_data and fill_missing_values.            *)
(***************************************************************************)
\* C2: when every raw code, flag and StringencyIndex of the input is within
\* its range, every S1..S9 and mt, pt and st of every row of the filled
\* table lie in [0, 1].
RangeBounds ==
  (stage = "filled" /\ InRange(old_df)) =>
    \A k \in DOMAIN df :
      /\ \A i \in 1..9 : InUnit(df[k][SColumn(i)])
      /\ InUnit(df[k].mt)
      /\ InUnit(df[k].pt)
      /\ InUnit(df[k].st)

\* both ends of the range are met in one table
RangeBoundsWitness ==
  /\ stage = "filled"
  /\ InRange(old_df)
  /\ \E k \in DOMAIN df : df[k].S4 = Num(1) /\ df[k].mt = Num(0) /\ df[k].st = Num(1)
  /\ \E k \in DOMAIN df : df[k].S4 = Num(0) /\ df[k].mt = Num(1) /\ df[k].st = Num(0)

(***************************************************************************)
(* C10.  The FEATURE constants name the S-columns of the indicators.       *)
(***************************************************************************)
\* the raw column of each indicator FEATURE names
FeatureIndicator ==
  [public_information |-> h1,
   school_closing |-> c1,
   workplace_closing |-> c2,
   cancel_public_events |-> c3,
   restrictions_on_gatherings |-> c4,
   close_public_transport |-> c5,
   stay_at_home_requirements |-> c6,
   restrictions_on_internal_movement |-> c7,
   international_travel_controls |-> c8]

\* C10: for each of the nine indicators, the column its FEATURE constant
\* names holds, after extend_data, the index computed from the indicator's
\* own raw column (H1, C1..C8): it is the column transform_to_mobility wrote
\* that index into.
FeatureNamesIndicatorColumn ==
  stage = "extended" =>
    \A f \in DOMAIN FeatureIndicator : \A k \in DOMAIN df :
      df[k][FEATURE[f]] = df[k][MId(FeatureIndicator[f])]

(***************************************************************************)
(* C3.  Mt, Pt and St are non-decreasing along a country's dates.          *)
(***************************************************************************)
\* every cell of the input is within its range or missing
InModel(t) ==
  \A k \in DOMAIN t :
    /\ \A c \in Range(ci_cols) :
         /\ t[k].ind[c] \in Ordinals(MaxOrdinal(c)) \cup {NaN}
         /\ t[k].flag[SId(c)] \in Flags \cup {NaN}
    /\ IsNaN(t[k].StringencyIndex)
       \/ (RLe(Num(0), t[k].StringencyIndex) /\ RLe(t[k].StringencyIndex, Num(100)))

\* C3: after fill_missing_values, of two rows of one country the later
\* dated one has an Mt, a Pt and an St at least as large.
CumulativeMonotone ==
  (stage = "filled" /\ InModel(old_df)) =>
    \A k \in DOMAIN df : \A p \in Earlier(df, k) :
      /\ RLe(df[p].Mt, df[k].Mt)
      /\ RLe(df[p].Pt, df[k].Pt)
      /\ RLe(df[p].St, df[k].St)

\* a country's series along which mt falls and Mt, Pt and St all grow
CumulativeMonotoneWitness ==
  /\ stage = "filled"
  /\ \E k \in DOMAIN df : \E p \in Earlier(df, k) :
       /\ RLt(df[k].mt, df[p].mt)
       /\ RLt(df[p].Mt, df[k].Mt)
       /\ RLt(df[p].Pt, df[k].Pt)
       /\ RLt(df[p].St, df[k].St)

(***************************************************************************)
(* C4.  fill_missing_values is idempotent.                                 *)
(***************************************************************************)
filled_cols ==
  si_cols \o count_cols \o <<"pt", "Pt", "mt", "Mt", "st", "St">>

\* C4: a second run of fill_missing_values on the table the first run
\* returned changes no value of S1..S9, the counts, StringencyIndex, pt,
\* Pt, mt, Mt, st and St, on any row.
FillIdempotent ==
  [][(stage = "filled" /\ stage' = "refilled") =>
       /\ DOMAIN df' = DOMAIN df
       /\ \A k \in DOMAIN df : \A i \in DOMAIN filled_cols :
            df'[k][filled_cols[i]] = df[k][filled_cols[i]]]_vars

\* a twice filled table in which two zeros in a row were filled
FillIdempotentWitness ==
  /\ stage = "refilled"
  /\ \E k \in DOMAIN df : \E p \in Earlier(df, k) :
       /\ IsZero(OldRow(df[k]).ConfirmedCases)
       /\ IsZero(OldRow(df[p]).ConfirmedCases)
       /\ IsZero(OldRow(df[k]).ind[c1])
       /\ IsZero(OldRow(df[p]).ind[c1])
       /\ ~IsZero(df[p].ConfirmedCases)
       /\ df[k].ConfirmedCases = df[p].ConfirmedCases
       /\ ~IsZero(df[p].S1)
       /\ df[k].S1 = df[p].S1

(***************************************************************************)
(* C5.  No derived value of a country depends on another country's rows.   *)
(***************************************************************************)
Codes(t) == {t[k].Country_Code : k \in DOMAIN t}

\* another raw value in every cell of a row: the code counted from the
\* highest one, the other flag, one more case and death, 100 minus the
\* StringencyIndex
Perturb(r) ==
  [r EXCEPT
     !.ind = [c \in DOMAIN @ |->
                IF IsNaN(@[c]) THEN Num(MaxOrdinal(c)) ELSE RSub(Num(MaxOrdinal(c)), @[c])],
     !.flag = [x \in DOMAIN @ |-> IF IsNaN(@[x]) THEN Num(1) ELSE RSub(Num(1), @[x])],
     !.ConfirmedCases = IF IsNaN(@) THEN Num(1) ELSE RAdd(@, Num(1)),
     !.ConfirmedDeaths = IF IsNaN(@) THEN Num(1) ELSE RAdd(@, Num(1)),
     !.StringencyIndex = IF IsNaN(@) THEN Num(100) ELSE RSub(Num(100), @)]

\* the table with the raw values of country a's rows changed
PerturbCountry(t, a) ==
  [k \in DOMAIN t |-> IF t[k].Country_Code = a THEN Perturb(t[k]) ELSE t[k]]

\* C5: the rows of a country b in the table process_data returns are the
\* rows process_data returns for b's input rows alone, so they are the same
\* for any two inputs that differ only in other countries' rows; and they
\* are the same as in the output for the input in which every raw value of
\* a country a # b is changed.
CountriesIndependent ==
  stage = "done" =>
    \A b \in Codes(old_df) :
      /\ LET alone == RowsOf(old_df, b)
         IN RowsOf(df, b) = process_data(alone, alone, WorldPopulationData)
      /\ \A a \in Codes(old_df) \ {b} :
           LET other == PerturbCountry(old_df, a)
           IN RowsOf(df, b) = RowsOf(process_data(other, other, WorldPopulationData), b)

\* the second country's series starts with zeros and a case count other
\* than the one the first country's series ends with
CountriesIndependentWitness ==
  /\ stage = "done"
  /\ \E k \in DOMAIN df \ {1} :
       /\ df[k - 1].Country_Code # df[k].Country_Code
       /\ ~IsZero(df[k - 1].S1)
       /\ IsZero(df[k].S1)
       /\ ~IsZero(df[k - 1].ConfirmedCases)
       /\ IsZero(df[k].ConfirmedCases)
       /\ ~IsZero(df[k - 1].Pt)

(***************************************************************************)
(* C6.  DaysCountFromFirstCase.                                            *)
(***************************************************************************)
\* the dates of a country's input rows with ConfirmedCases > 0
CaseDates(c) ==
  {old_df[k].DateTime : k \in {j \in DOMAIN old_df :
      old_df[j].Country_Code = c /\ RLt(Num(0), old_df[j].ConfirmedCases)}}

\* C6: in the table process_data returns, a row dated on or after its
\* country's earliest date with ConfirmedCases > 0 holds the number of days
\* since that date, every earlier row holds 0, and so does every row of a
\* country without a case; ConfirmedCases 0, 0, 5, 5, 12 on consecutive days
\* gives 0, 0, 0, 1, 2.
DaysCountFromFirstCaseExact ==
  stage = "done" =>
    /\ \A k \in DOMAIN df :
         LET dates == CaseDates(df[k].Country_Code)
         IN df[k].DaysCountFromFirstCase =
              IF \E d \in dates : d <= df[k].DateTime
              THEN df[k].DateTime - (CHOOSE d \in dates : \A e \in dates : d <= e)
              ELSE 0
    /\ old_df = ExampleTable =>
         [k \in DOMAIN df |-> df[k].DaysCountFromFirstCase] = <<0, 0, 0, 1, 2>>

\* a row three days after the first case whose own input count is zero,
\* in a series that starts two days before the first case
DaysCountFromFirstCaseWitness ==
  /\ stage = "done"
  /\ \E k \in DOMAIN df : \E p \in Earlier(df, k) :
       /\ df[p].DaysCountFromFirstCase = 0
       /\ IsZero(df[p].ConfirmedCases)
       /\ IsZero(OldRow(df[k]).ConfirmedCases)
       /\ df[k].DaysCountFromFirstCase = 3
       /\ df[k].DateTime - df[p].DateTime = 5

(***************************************************************************)
(* C7.  The daily deltas.                                                  *)
(***************************************************************************)
\* C7: after create_features, each of the four daily columns is 0 on the
\* earliest row of every country and, on every later row, the row's value
\* minus the value of the country's preceding row.
DailyDeltaExact ==
  stage = "done" =>
    \A k \in DOMAIN df : \A i \in DOMAIN daily_cols :
      df[k][daily_cols[i][1]] =
        IF Earlier(df, k) = {} THEN Num(0)
        ELSE RSub(df[k][daily_cols[i][2]], df[Prev(df, k)][daily_cols[i][2]])

\* the second country's series starts with a count that is not zero and
\* differs from the last count of the first country, and a later row of a
\* series holds a delta that is not zero
DailyDeltaWitness ==
  /\ stage = "done"
  /\ \E k \in DOMAIN df \ {1} :
       /\ df[k - 1].Country_Code # df[k].Country_Code
       /\ ~IsZero(df[k].ConfirmedCases)
       /\ df[k].ConfirmedCases # df[k - 1].ConfirmedCases
       /\ IsZero(df[k].DailyConfirmedCases)
       /\ \E j \in DOMAIN df :
            Earlier(df, j) # {} /\ ~IsZero(df[j].DailyConfirmedCases)

(***************************************************************************)
(* C8.  The severity indices are defined, and zero gaps are filled.        *)
(***************************************************************************)
Defined(t) ==
  \A k \in DOMAIN t :
    /\ \A i \in 1..9 : ~IsNaN(t[k][SColumn(i)])
    /\ ~IsNaN(t[k].mt)
    /\ ~IsNaN(t[k].st)

\* C8 as stated: after extend_data and fill_missing_values S1..S9, mt and st
\* are defined on every row, and a row with the raw code 0 that follows a
\* row of its country with a severity index other than 0 holds that index,
\* not a value computed from its own code.
RawZeroFilled ==
  stage = "filled" =>
    /\ Defined(df)
    /\ \A k \in DOMAIN df : \A c \in Range(ci_cols) :
         LET S == SColumn(IndicatorIndex(c))
         IN (IsZero(OldRow(df[k]).ind[c]) /\ Earlier(df, k) # {}
             /\ ~IsZero(df[Prev(df, k)][S])) =>
              df[k][S] = df[Prev(df, k)][S]

\* C8 as amended: the row is filled when the index computed from its raw
\* code 0 is 0, that is when its flag is 0 or missing or the indicator is
\* the one without flag; with the flag 1 the row keeps w, the index computed
\* from its own code; and a zero with no index other than 0 before it in its
\* country stays 0.
ZeroIndexFilled ==
  stage = "filled" =>
    /\ Defined(df)
    /\ \A k \in DOMAIN df : \A c \in Range(ci_cols) :
         LET S == SColumn(IndicatorIndex(c))
             raw == OldRow(df[k]).ind[c]
             flag == OldRow(df[k]).flag[SId(c)]
             follows == Earlier(df, k) # {} /\ ~IsZero(df[Prev(df, k)][S])
         IN /\ (IsZero(raw) /\ (flag \in {Num(0), NaN} \/ c = c8) /\ follows) =>
                 df[k][S] = df[Prev(df, k)][S]
            /\ (IsZero(raw) /\ (flag \in {Num(0), NaN} \/ c = c8) /\ ~follows) =>
                 df[k][S] = Num(0)
            /\ (IsZero(raw) /\ flag = Num(1) /\ c # c8) =>
                 df[k][S] = Rat(28375, 100000)

\* a raw zero with flag 0 that took the index of the row before it, and a
\* raw zero with flag 1 that kept w after another index
ZeroIndexFilledWitness ==
  /\ stage = "filled"
  /\ \E k \in DOMAIN df :
       /\ Earlier(df, k) # {}
       /\ IsZero(OldRow(df[k]).ind[c1])
       /\ IsZero(OldRow(df[k]).flag[SId(c1)])
       /\ ~IsZero(df[k].S1)
       /\ df[k].S1 = df[Prev(df, k)].S1
  /\ \E k \in DOMAIN df :
       /\ Earlier(df, k) # {}
       /\ IsZero(OldRow(df[k]).ind[c1])
       /\ OldRow(df[k]).flag[SId(c1)] = Num(1)
       /\ df[k].S1 = Rat(28375, 100000)
       /\ df[Prev(df, k)].S1 \notin {Num(0), Rat(28375, 100000)}

(***************************************************************************)
(* C9.  The forward fill of fill_missing_values.                           *)
(***************************************************************************)
\* the rows of k's country dated before k whose column col is not zero
EarlierNonZero(t, k, col) == {p \in Earlier(t, k) : ~IsZero(t[p][col])}

\* the latest of them
LastNonZero(t, k, col) ==
  CHOOSE p \in EarlierNonZero(t, k, col) :
    \A q \in EarlierNonZero(t, k, col) : t[q].DateTime <= t[p].DateTime

\* C9: fill_missing_values leaves every value of S1..S9, ConfirmedCases,
\* ConfirmedDeaths, Recovered and StringencyIndex that is not zero as it is,
\* replaces a zero by the latest earlier value of the column in the same
\* country that is not zero, and leaves it zero when there is none; so in
\* the filled table no zero follows a value that is not zero.
ForwardFill ==
  [][(stage = "extended" /\ stage' = "filled") =>
       /\ DOMAIN df' = DOMAIN df
       /\ \A k \in DOMAIN df : \A i \in 1..(Len(si_cols) + Len(count_cols)) :
            LET col == (si_cols \o count_cols)[i]
            IN /\ Key(df'[k]) = Key(df[k])
               /\ df'[k][col] =
                    IF ~IsZero(df[k][col]) THEN df[k][col]
                    ELSE IF EarlierNonZero(df, k, col) = {} THEN Num(0)
                    ELSE df[LastNonZero(df, k, col)][col]
               /\ \A p \in Earlier(df, k) :
                    ~IsZero(df'[p][col]) => ~IsZero(df'[k][col])]_vars

\* a series with a leading zero kept, then two different values, then a
\* zero filled with the later of them
ForwardFillWitness ==
  /\ stage = "filled"
  /\ \E k \in DOMAIN df : \E p \in Earlier(df, k) : \E q \in Earlier(df, p) :
       /\ IsZero(df[q].ConfirmedCases)
       /\ IsZero(df[q].S1)
       /\ ~IsZero(df[p].ConfirmedCases)
       /\ ~IsZero(df[p].S1)
       /\ IsZero(OldRow(df[k]).ConfirmedCases)
       /\ IsZero(OldRow(df[k]).ind[c1])
       /\ df[k].ConfirmedCases = df[p].ConfirmedCases
       /\ df[k].S1 = df[p].S1

====
